---- MODULE Spec2Model ----
(***************************************************************************)
(* One invocation of responseProvider (src/main.ts): validate the parsed   *)
(* body, call the key generator, call the known-key endpoint, relay to the *)
(* origin, decide the response.  Every await of the code is a pair of      *)
(* actions (the call is issued, its reply arrives); the replies of the     *)
(* three remote endpoints are inputs drawn from small sets.                *)
(*                                                                         *)
(* JavaScript values are records tagged with their typeof-like kind, so    *)
(* that property access, the `in` operator, truthiness and JSON.stringify  *)
(* behave on them as they do in the runtime (including the TypeErrors).    *)
(***************************************************************************)
EXTENDS Integers, Sequences, FiniteSets, TLC

VARIABLES
    pc,          \* position of the async function responseProvider
    request,     \* the inbound request: headers, method, result of request.json()
    body,        \* `body` (line 64)
    key,         \* `key` (line 85)
    knownKey,    \* `knownKey` (line 67)
    keyReply,    \* what the key generator answered (`result`, line 134)
    knownReply,  \* what the known-key endpoint answered (`result`, line 176)
    originReply, \* what the origin answered (`originResponse`, line 217)
    calls,       \* the outbound httpRequest calls issued so far, in order
    pending,     \* the outbound calls issued and not yet completed
    keyCall,     \* the request sent to the key generator
    knownCall,   \* the request sent to the known-key endpoint
    originCall,  \* the request sent to the origin
    log,         \* levels of the lines written to the logger
    outcome      \* the promise responseProvider returns

vars == <<pc, request, body, key, knownKey, keyReply, knownReply, originReply,
          calls, pending, keyCall, knownCall, originCall, log, outcome>>

----------------------------------------------------------------------------
(* Bounds of the input universe *)

MaxStrLen == 3
MaxArrLen == 2

----------------------------------------------------------------------------
(* JavaScript values *)

Null == [kind |-> "null"]
Undefined == [kind |-> "undefined"]
Function == [kind |-> "function"]
Bool(b) == [kind |-> "boolean", val |-> b]
Num(n) == [kind |-> "number", val |-> n]
Str(s) == [kind |-> "string", val |-> s]
Arr(s) == [kind |-> "array", val |-> s]
\* an object is the sequence of its own properties, in insertion order
Obj(s) == [kind |-> "object", val |-> s]
Prop(k, v) == [k |-> k, v |-> v]

\* the promise of a .json() call that rejects (body is not JSON)
Unparsable == [kind |-> "unparsable"]

RECURSIVE Rep(_)
Rep(n) == IF n = 0 THEN "" ELSE "a" \o Rep(n - 1)

RECURSIVE Nulls(_)
Nulls(n) == IF n = 0 THEN <<>> ELSE <<Null>> \o Nulls(n - 1)

IsNullish(v) == v.kind \in {"null", "undefined"}

\* `name in v` raises a TypeError unless v is an object (arrays are objects)
InThrows(v) == v.kind \notin {"object", "array"}

In(name, v) ==
    CASE v.kind = "object" -> \E i \in DOMAIN v.val : v.val[i].k = name
      [] v.kind = "array" -> name = "length"
      [] OTHER -> FALSE

\* v[name] for a string name; the caller has excluded null and undefined,
\* on which the access raises a TypeError
GetProp(v, name) ==
    CASE v.kind = "object" ->
            IF \E i \in DOMAIN v.val : v.val[i].k = name
            THEN (CHOOSE p \in {v.val[i] : i \in DOMAIN v.val} : p.k = name).v
            ELSE Undefined
      [] v.kind = "array" ->
            IF name = "length" THEN Num(Len(v.val)) ELSE Undefined
      [] v.kind = "string" ->
            IF name = "length" THEN Num(Len(v.val))
            ELSE IF name = "substring" THEN Function
            ELSE Undefined
      [] OTHER -> Undefined

\* v[i] for a number i; every string of the universe is a run of "a"
GetIndex(v, i) ==
    CASE v.kind = "array" ->
            IF i + 1 <= Len(v.val) THEN v.val[i + 1] ELSE Undefined
      [] v.kind = "string" ->
            IF i < Len(v.val) THEN Str("a") ELSE Undefined
      [] OTHER -> Undefined

\* `v > n` where v is a .length: undefined converts to NaN, and NaN > n is false
GreaterThan(v, n) == v.kind = "number" /\ v.val > n

\* a test against undefined only, in place of ToBoolean
TruthyNotUndefined(v) == v.kind # "undefined"

\* ToBoolean
Truthy(v) ==
    CASE v.kind = "boolean" -> v.val
      [] v.kind = "number" -> v.val # 0
      [] v.kind = "string" -> v.val # ""
      [] v.kind \in {"null", "undefined"} -> FALSE
      [] OTHER -> TRUE

\* JSON.stringify leaves out the properties whose value is undefined
IsSerializable(p) == p.v.kind \notin {"undefined", "function"}

RECURSIVE StringifyText(_)
RECURSIVE StringifyElems(_)
RECURSIVE StringifyProps(_)
StringifyText(v) ==
    CASE v.kind = "boolean" -> IF v.val THEN "true" ELSE "false"
      [] v.kind = "number" -> ToString(v.val)
      [] v.kind = "string" -> "\"" \o v.val \o "\""
      [] v.kind = "array" -> "[" \o StringifyElems(v.val) \o "]"
      [] v.kind = "object" -> "{" \o StringifyProps(SelectSeq(v.val, IsSerializable)) \o "}"
      [] OTHER -> "null"
StringifyElems(s) ==
    IF s = <<>> THEN ""
    ELSE StringifyText(Head(s))
         \o (IF Len(s) > 1 THEN "," ELSE "") \o StringifyElems(Tail(s))
StringifyProps(s) ==
    IF s = <<>> THEN ""
    ELSE "\"" \o Head(s).k \o "\":" \o StringifyText(Head(s).v)
         \o (IF Len(s) > 1 THEN "," ELSE "") \o StringifyProps(Tail(s))

\* JSON.stringify: a string, except that undefined yields undefined
JSONStringify(v) ==
    IF v.kind \in {"undefined", "function"} THEN Undefined
    ELSE Str(StringifyText(v))

----------------------------------------------------------------------------
(* Program constants *)

headersToRemove ==
    {"host", "content-length", "transfer-encoding", "connection", "vary",
     "accept-encoding", "content-encoding", "keep-alive", "Proxy-Authenticate",
     "proxy-authorization", "te", "trailers", "upgrade"}

UNAME == "username"
PASSWD == "password"
KEYGENERATOR_URL == "https://api.grinwis.com/NoMoreLeaksKey"
KNOWNKEY_URL == "https://api.grinwis.com/KnownKey"
ORIGIN_URL == "https://api.grinwis.com/headers"
COLLECTION == "NoMoreLeaks"
KEY == "key"
HIT_HEADER == "x-nomoreleaks-hit"

WarningHeaders ==
    [n \in {"Powered-By"} |-> <<"Akamai EdgeWorkers - No More Leaks Module">>]
WarningBody ==
    "<html><body><p>Something wrong with your account, Please contact helpdesk.</p></body></html>"

----------------------------------------------------------------------------
(* The inputs: inbound requests and the replies of the three endpoints *)

Strings == {Str(Rep(n)) : n \in 0..MaxStrLen}
Arrays == {Arr(Nulls(n)) : n \in 0..MaxArrLen}

\* the values a credential field of the body can hold
FieldValues == {Null, Num(7), Bool(TRUE)} \cup Strings \cup Arrays

\* every JSON document of the universe a request body can parse to
Bodies ==
    {Null, Num(7), Bool(TRUE), Str(Rep(MaxStrLen)), Arr(<<>>), Obj(<<>>)}
    \cup {Obj(<<Prop(UNAME, u)>>) : u \in FieldValues}
    \cup {Obj(<<Prop(PASSWD, p)>>) : p \in FieldValues}
    \cup {Obj(<<Prop(UNAME, u), Prop(PASSWD, p)>>) :
              u \in FieldValues, p \in FieldValues}

HeaderNames ==
    {"host", "Host", "proxy-authenticate", "Proxy-Authenticate", "x-custom"}
HeaderMaps ==
    UNION {[S -> {<<Str("v")>>}] : S \in SUBSET HeaderNames}

Requests ==
    [method : {"POST"}, headers : HeaderMaps, json : Bodies \cup {Unparsable}]

\* httpRequest either rejects (network error, timeout) or resolves with a
\* response whose `ok` the platform derives from the status
Ok(status) == status \in 200..299
NetworkError == [kind |-> "error"]
Response(status, json) ==
    [kind |-> "response", status |-> status, ok |-> Ok(status), json |-> json]

KeygenDocs ==
    {Null, Num(7), Str("a"), Arr(<<>>), Obj(<<>>), Obj(<<Prop("error", Str("a"))>>)}
    \cup {Obj(<<Prop(KEY, k)>>) : k \in {Null, Num(7), Bool(TRUE), Arr(<<>>)} \cup Strings}
KeygenReplies ==
    {NetworkError, Response(500, Unparsable), Response(500, Str("a"))}
    \cup {Response(200, d) : d \in KeygenDocs \cup {Unparsable}}

ResultValues ==
    {Bool(TRUE), Bool(FALSE), Null, Num(0), Num(1), Str(""), Str("a")}
KnownKeyDocs ==
    {Null, Num(7), Str("a"), Obj(<<>>), Arr(<<>>), Arr(<<Null>>), Arr(<<Num(7)>>),
     Arr(<<Obj(<<>>)>>)}
    \cup {Arr(<<Obj(<<Prop("result", r)>>)>>) : r \in ResultValues}
KnownKeyReplies ==
    {NetworkError, Response(500, Unparsable), Response(500, Str("a"))}
    \cup {Response(200, d) : d \in KnownKeyDocs \cup {Unparsable}}

OriginHeaders == [n \in {"content-type"} |-> <<"text/plain">>]
OriginResponse(status) ==
    [kind |-> "response", status |-> status, ok |-> Ok(status),
     headers |-> OriginHeaders, body |-> "OK"]
OriginReplies ==
    {NetworkError} \cup {OriginResponse(s) : s \in {200, 204, 404, 503}}

NoReply == [kind |-> "none"]
NoCall == [to |-> "none"]
Pending == [kind |-> "pending"]
Resolved(status, headers, responseBody) ==
    [kind |-> "resolved", status |-> status, headers |-> headers,
     body |-> responseBody]
Rejected(reason) == [kind |-> "rejected", reason |-> reason]

----------------------------------------------------------------------------
(* Body validation, lines 64-77 *)

hasBody(b) == b # Null

hasCredentials(b) == hasBody(b) /\ In(UNAME, b) /\ In(PASSWD, b)

\* body[UNAME].length > 1 && body[PASSWD].length > 2
bodyIsValid(b) ==
    /\ hasCredentials(b)
    /\ GreaterThan(GetProp(GetProp(b, UNAME), "length"), 1)
    /\ GreaterThan(GetProp(GetProp(b, PASSWD), "length"), 2)

\* the TypeErrors the three expressions raise: `in` on a primitive, and
\* .length read from null; && evaluates its right operand only when the
\* left one is truthy
validationThrows(b) ==
    \/ hasBody(b) /\ InThrows(b)
    \/ /\ hasBody(b) /\ ~InThrows(b)
       /\ hasCredentials(b)
       /\ \/ IsNullish(GetProp(b, UNAME))
          \/ /\ GreaterThan(GetProp(GetProp(b, UNAME), "length"), 1)
             /\ IsNullish(GetProp(b, PASSWD))

requestBody(b) ==
    Obj(<<Prop("uname", GetProp(b, UNAME)), Prop("passwd", GetProp(b, PASSWD))>>)

----------------------------------------------------------------------------
(* getKeyFromKeyGenerator, lines 130-159 *)

\* the try block reaches `return response[KEY]`: the response is ok, its
\* body parses, and response[KEY].substring(0, 5) raises nothing
keyGeneratorSucceeds(r) ==
    /\ r.kind = "response"
    /\ r.ok
    /\ r.json # Unparsable
    /\ ~IsNullish(r.json)
    /\ ~IsNullish(GetProp(r.json, KEY))
    /\ GetProp(GetProp(r.json, KEY), "substring").kind = "function"

\* the same function without the key preview of lines 142-144, whose
\* .substring call is what rejects a missing or non-string key
getKeyWithoutPreview(r) ==
    IF r.kind = "response" /\ r.ok /\ r.json # Unparsable /\ ~IsNullish(r.json)
    THEN GetProp(r.json, KEY)
    ELSE Null

getKeyFromKeyGenerator(r) ==
    IF keyGeneratorSucceeds(r) THEN GetProp(r.json, KEY) ELSE Null

----------------------------------------------------------------------------
(* keyExists, lines 163-201 *)

bindVars(k) == Obj(<<Prop("@collection", Str(COLLECTION)), Prop("key", k)>>)

\* the try block reaches `return response[0]["result"]`
keyExistsSucceeds(r) ==
    /\ r.kind = "response"
    /\ r.ok
    /\ r.json # Unparsable
    /\ ~IsNullish(r.json)
    /\ ~IsNullish(GetIndex(r.json, 0))

keyExists(r) ==
    IF keyExistsSucceeds(r)
    THEN GetProp(GetIndex(r.json, 0), "result")
    ELSE Bool(FALSE)

----------------------------------------------------------------------------
(* originRequest, lines 203-224, and the decision, lines 103-126 *)

\* delete requestHeaders[element] removes the property of exactly that name
originRequestHeaders(headers, knowKey) ==
    [n \in (DOMAIN headers \ headersToRemove) \cup {HIT_HEADER} |->
        IF n = HIT_HEADER THEN <<JSONStringify(knowKey)>> ELSE headers[n]]

responseDecision(flag, r) ==
    IF Truthy(flag) /\ r.ok
    THEN Resolved(200, WarningHeaders, WarningBody)
    ELSE IF r.ok
    THEN Resolved(r.status, r.headers, r.body)
    ELSE Rejected("failed sub-request: " \o ToString(r.status))

----------------------------------------------------------------------------
(* The invocation *)

Init ==
    /\ request \in Requests
    /\ pc = "start"
    /\ body = Undefined
    /\ key = Undefined
    /\ knownKey = Undefined
    /\ keyReply = NoReply
    /\ knownReply = NoReply
    /\ originReply = NoReply
    /\ calls = <<>>
    /\ pending = {}
    /\ keyCall = NoCall
    /\ knownCall = NoCall
    /\ originCall = NoCall
    /\ log = <<>>
    /\ outcome = Pending

\* lines 64-83: parse the body, validate it
Validate ==
    /\ pc = "start"
    /\ LET b == IF request.json = Unparsable THEN Null ELSE request.json IN
        /\ body' = b
        /\ knownKey' = Bool(FALSE)
        /\ IF validationThrows(b)
           THEN pc' = "done" /\ outcome' = Rejected("TypeError")
           ELSE /\ pc' = IF bodyIsValid(b) THEN "derive" ELSE "relay"
                /\ outcome' = outcome
    /\ UNCHANGED <<request, key, keyReply, knownReply, originReply, calls,
                   pending, keyCall, knownCall, originCall, log>>

\* lines 85, 134-137
CallKeyGenerator ==
    /\ pc = "derive"
    /\ keyCall' = [to |-> "keygen", url |-> KEYGENERATOR_URL, method |-> "POST",
                   body |-> JSONStringify(requestBody(body))]
    /\ calls' = Append(calls, "keygen")
    /\ pending' = pending \cup {"keygen"}
    /\ pc' = "awaitKey"
    /\ UNCHANGED <<request, body, key, knownKey, keyReply, knownReply,
                   originReply, knownCall, originCall, log, outcome>>

\* lines 139-158 and 87
KeyGeneratorReply ==
    /\ pc = "awaitKey"
    /\ \E r \in KeygenReplies :
        /\ keyReply' = r
        /\ key' = getKeyFromKeyGenerator(r)
        /\ log' = Append(log, IF keyGeneratorSucceeds(r) THEN "info" ELSE "error")
    /\ pending' = pending \ {"keygen"}
    /\ pc' = IF Truthy(key') THEN "lookup" ELSE "relay"
    /\ UNCHANGED <<request, body, knownKey, knownReply, originReply, calls,
                   keyCall, knownCall, originCall, outcome>>

\* lines 90-95, 168-178; the query string carries the bind variables as JSON
CallKeyExists ==
    /\ pc = "lookup"
    /\ knownCall' = [to |-> "knownkey", url |-> KNOWNKEY_URL, method |-> "GET",
                     bindVars |-> JSONStringify(bindVars(key))]
    /\ calls' = Append(calls, "knownkey")
    /\ pending' = pending \cup {"knownkey"}
    /\ pc' = "awaitKnown"
    /\ UNCHANGED <<request, body, key, knownKey, keyReply, knownReply,
                   originReply, keyCall, originCall, log, outcome>>

\* lines 181-200 and 95
KeyExistsReply ==
    /\ pc = "awaitKnown"
    /\ \E r \in KnownKeyReplies :
        /\ knownReply' = r
        /\ knownKey' = keyExists(r)
        /\ log' = Append(log, IF keyExistsSucceeds(r) THEN "info" ELSE "error")
    /\ pending' = pending \ {"knownkey"}
    /\ pc' = "relay"
    /\ UNCHANGED <<request, body, key, keyReply, originReply, calls, keyCall,
                   knownCall, originCall, outcome>>

\* lines 100, 208-221
CallOrigin ==
    /\ pc = "relay"
    /\ originCall' = [to |-> "origin", url |-> ORIGIN_URL, method |-> request.method,
                      headers |-> originRequestHeaders(request.headers, knownKey),
                      body |-> JSONStringify(body)]
    /\ calls' = Append(calls, "origin")
    /\ pending' = pending \cup {"origin"}
    /\ pc' = "awaitOrigin"
    /\ UNCHANGED <<request, body, key, knownKey, keyReply, knownReply,
                   originReply, keyCall, knownCall, log, outcome>>

\* lines 217-223 and 101-126; a rejected httpRequest is not caught
OriginReply ==
    /\ pc = "awaitOrigin"
    /\ \E r \in OriginReplies :
        /\ originReply' = r
        /\ IF r.kind = "error"
           THEN outcome' = Rejected("NetworkError") /\ log' = log
           ELSE /\ outcome' = responseDecision(knownKey, r)
                /\ log' = Append(log, "info")
    /\ pending' = pending \ {"origin"}
    /\ pc' = "done"
    /\ UNCHANGED <<request, body, key, knownKey, keyReply, knownReply, calls,
                   keyCall, knownCall, originCall>>

Next ==
    \/ Validate
    \/ CallKeyGenerator
    \/ KeyGeneratorReply
    \/ CallKeyExists
    \/ KeyExistsReply
    \/ CallOrigin
    \/ OriginReply

Spec == Init /\ [][Next]_vars

----------------------------------------------------------------------------
(* Vocabulary of the properties *)

Issued(endpoint) == \E i \in DOMAIN calls : calls[i] = endpoint

TimesIssued(endpoint) == Cardinality({i \in DOMAIN calls : calls[i] = endpoint})

\* lower-casing of a header name, over the header names of the model
ToLowerCase(n) ==
    CASE n = "Host" -> "host"
      [] n = "Proxy-Authenticate" -> "proxy-authenticate"
      [] OTHER -> n

DenyList ==
    {"host", "content-length", "transfer-encoding", "connection", "vary",
     "accept-encoding", "content-encoding", "keep-alive", "proxy-authenticate",
     "proxy-authorization", "te", "trailers", "upgrade"}

\* the document has no own field of that name (a primitive has no fields)
MissingField(b, f) == ~(b.kind = "object" /\ In(f, b))

\* the field is there and is a string or an array of at most n elements
ShortField(b, f, n) ==
    /\ ~MissingField(b, f)
    /\ GetProp(b, f).kind \in {"string", "array"}
    /\ Len(GetProp(b, f).val) <= n

InvalidBody(j) ==
    \/ j \in {Unparsable, Null}
    \/ MissingField(j, UNAME)
    \/ MissingField(j, PASSWD)
    \/ ShortField(j, UNAME, 1)
    \/ ShortField(j, PASSWD, 2)

KeyGeneratorFailed(r) ==
    \/ r.kind = "error"
    \/ r.kind = "response" /\ ~r.ok
    \/ r.kind = "response" /\ r.json = Unparsable
    \/ /\ r.kind = "response"
       /\ ~(/\ r.json.kind = "object"
            /\ In(KEY, r.json)
            /\ GetProp(r.json, KEY).kind = "string")

KeyLookupFailed(r) ==
    \/ r.kind = "error"
    \/ r.kind = "response" /\ ~r.ok
    \/ r.kind = "response" /\ r.json = Unparsable
    \/ /\ r.kind = "response"
       /\ ~(/\ r.json.kind = "array"
            /\ Len(r.json.val) >= 1
            /\ r.json.val[1].kind = "object"
            /\ In("result", r.json.val[1]))

OriginOk == originReply.kind = "response" /\ originReply.ok

WarningPage == Resolved(200, WarningHeaders, WarningBody)

OriginVerbatim ==
    Resolved(originReply.status, originReply.headers, originReply.body)

Rank(endpoint) ==
    CASE endpoint = "keygen" -> 1
      [] endpoint = "knownkey" -> 2
      [] endpoint = "origin" -> 3

----------------------------------------------------------------------------
(* The properties *)

\* C1: a body that is null or unparsable, lacks the username or the password
\* field, or has a username of length <= 1 or a password of length <= 2 never
\* leads to a key-generator or known-key call, and the invocation ends with
\* the leak flag false and the origin call as its only call.
C1_InvalidBodyOnlyOrigin ==
    InvalidBody(request.json) =>
        /\ ~Issued("keygen")
        /\ ~Issued("knownkey")
        /\ pc = "done" => (knownKey = Bool(FALSE) /\ calls = <<"origin">>)

\* C2: whatever the casing of the inbound header names, the headers sent to
\* the origin hold no name of the deny list and hold every other inbound
\* header unchanged.
C2_FilterCaseInsensitive ==
    originCall # NoCall =>
        /\ \A n \in DOMAIN originCall.headers : ToLowerCase(n) \notin DenyList
        /\ \A n \in DOMAIN request.headers :
              (ToLowerCase(n) \notin DenyList /\ n # HIT_HEADER) =>
                  /\ n \in DOMAIN originCall.headers
                  /\ originCall.headers[n] = request.headers[n]

\* C3: the x-nomoreleaks-hit header of every origin request is present and
\* is exactly "true" or "false".
C3_HitHeaderTrueOrFalse ==
    originCall # NoCall =>
        /\ HIT_HEADER \in DOMAIN originCall.headers
        /\ originCall.headers[HIT_HEADER] \in {<<Str("true")>>, <<Str("false")>>}

\* C4: validation never raises: once the body is validated the invocation is
\* on its way to the key generator or to the relay, never rejected by the
\* validation itself.
C4_ValidationNeverRaises ==
    pc # "start" =>
        /\ outcome # Rejected("TypeError")
        /\ originReply = NoReply => pc # "done"

\* C5: after every failed key lookup (error, non-success status, unparsable
\* reply, reply that is no array with a first element, first element without
\* a result field) the leak flag is the boolean false.
C5_LookupFailureGivesFalse ==
    (knownReply # NoReply /\ KeyLookupFailed(knownReply)) => knownKey = Bool(FALSE)

\* C6: after every key-generator failure (error, non-success status,
\* unparsable reply, missing or non-string key) the key is null, the
\* known-key endpoint is never called, and the invocation goes on to the
\* origin request, which carries the leak flag "false".
C6_KeyGeneratorFailureRelays ==
    (keyReply # NoReply /\ KeyGeneratorFailed(keyReply)) =>
        /\ key = Null
        /\ ~Issued("knownkey")
        /\ knownKey = Bool(FALSE)
        /\ pc \in {"relay", "awaitOrigin", "done"}
        /\ pc = "relay" => ENABLED CallOrigin
        /\ pc \in {"awaitOrigin", "done"} =>
              /\ TimesIssued("origin") = 1
              /\ originCall.headers[HIT_HEADER] = <<Str("false")>>

C6_Witness ==
    /\ keyReply # NoReply
    /\ KeyGeneratorFailed(keyReply)
    /\ keyReply.kind = "response" /\ keyReply.ok /\ keyReply.json # Unparsable
    /\ pc = "done"
    /\ OriginOk
    /\ outcome = OriginVerbatim

\* C7: when the origin answered with success, the response is the warning
\* page exactly when the leak flag is true, and with the leak flag false it
\* is the origin's status, headers and body.
C7_WarningIffLeakFlag ==
    (pc = "done" /\ OriginOk) =>
        /\ outcome = WarningPage <=> knownKey = Bool(TRUE)
        /\ knownKey = Bool(FALSE) => outcome = OriginVerbatim

\* C8: an invocation ends with the origin's response, with the warning page,
\* or rejected with the origin's status in the reason; it is rejected only
\* when the origin answered with a non-success status.
C8_ThreeOutcomes ==
    pc = "done" =>
        \/ OriginOk /\ outcome = OriginVerbatim
        \/ OriginOk /\ outcome = WarningPage
        \/ /\ originReply.kind = "response"
           /\ ~originReply.ok
           /\ outcome = Rejected("failed sub-request: " \o ToString(originReply.status))

\* C9: every invocation issues the origin request exactly once.
C9_OriginIssuedOnce ==
    pc = "done" => TimesIssued("origin") = 1

\* C10: the outbound calls are a subsequence of key generator, known key,
\* origin, each issued at most once and never two in flight; the known-key
\* call follows a completed key-generator call that gave a non-empty key, and
\* the origin call follows the completion of every earlier call.
C10_CallsSerialized ==
    /\ \A i, j \in DOMAIN calls : i < j => Rank(calls[i]) < Rank(calls[j])
    /\ Cardinality(pending) <= 1
    /\ Issued("knownkey") =>
          /\ Issued("keygen")
          /\ "keygen" \notin pending
          /\ keyReply # NoReply
          /\ key.kind = "string" /\ key.val # ""
    /\ Issued("origin") => pending \subseteq {"origin"}

C10_Witness ==
    /\ calls = <<"keygen", "knownkey", "origin">>
    /\ pc = "done"

====
